---- MODULE Spec2Model ----
(***************************************************************************)
(* Model of the telegram-video-bot scan / dedup / select / dispatch        *)
(* pipeline: db.py (the sent_videos ledger and the channels table) and     *)
(* scanner.py (daily_job), started by main.py (cron) and handlers.py       *)
(* (/sendnow), and the schedule that /settime (handlers.py) changes.       *)
(* Time is counted in hours since an epoch at UTC midnight.                *)
(***************************************************************************)
EXTENDS Integers, Sequences, FiniteSets, TLC

VARIABLES
    settings,   \* table settings: key -> value, "" for a key without a row
    job,        \* the trigger of the scheduler's job "daily_send": <<hour, minute>>
    cmd,        \* handler slot -> the local variables of its cmd_set_time call
    accepted,   \* the time of the last /settime that passed validation
    ncmds,      \* number of /settime commands received so far
    tz,         \* the host's local time zone: its offset from UTC, in hours
    now,        \* the wall clock (UTC), in hours
    ledger,     \* table sent_videos: a set of rows
    channels,   \* table channels: a sequence of rows, in storage order
    history,    \* Message Source: channel_id -> messages, newest first
    run,        \* run slot -> the local variables of its daily_job call
    events,     \* run slot -> what its current daily_job call did, in order
    api,        \* the log of direct calls of the ledger functions
    nruns       \* number of daily_job calls started so far

vars == <<settings, job, cmd, accepted, ncmds, tz, now, ledger, channels, history, run, events, api, nruns>>

---------------------------------------------------------------------------
(* Program constants *)

LOOKBACK_HOURS == 24
SCAN_LIMIT == 100
VIDEOS_PER_CHANNEL == 3
\* MIN_DURATION's default
min_duration == 300
\* scan_errors[:5]: the number of errors a report lists
ERRORS_SHOWN == 5
\* Python's None for an absent duration or view count
None == -1
HOURS_PER_DAY == 24

(* Bounds of the model *)

\* the clock starts at 12:00 of day 1 and advances by half days, so that
\* the first Tick crosses midnight
TickHours == HOURS_PER_DAY \div 2
StartNow == HOURS_PER_DAY + TickHours
MaxTicks == 1
\* daily_job calls per behaviour
MaxRuns == 2
\* direct ledger calls per behaviour
MaxCalls == 3

\* The places a daily_job call can start from: the scheduler's job
\* "daily_send" and the /sendnow handler.
Runs == {"cron", "sendnow"}

---------------------------------------------------------------------------
(* Small helpers *)

Min(a, b) == IF a <= b THEN a ELSE b

\* Python's `x or d` on an optional integer: None and 0 are falsy
OrElse(x, d) == IF x = None \/ x = 0 THEN d ELSE x

\* s[:n]
Take(s, n) == SubSeq(s, 1, Min(Len(s), n))

\* str() of an integer message id; channel ids are strings already
Str(n) == ToString(n)

\* the calendar date of an instant
DateOf(t) == t \div HOURS_PER_DAY

\* str(date.today()): the date of the host's local time
Today == DateOf(now + tz)

---------------------------------------------------------------------------
(* db.py: the sent_videos ledger *)

\* A row of sent_videos
Row(m, c, d) == [message_id |-> m, channel_id |-> c, sent_date |-> d]

\* PRIMARY KEY (message_id, channel_id): the rows an insert of (m, c, _)
\* conflicts with
Conflicts(l, m, c) == {x \in l : x.message_id = m /\ x.channel_id = c}

\* was_sent_today without the sent_date test
was_sent_today_AnyDate(l, m, c, today) ==
    \E x \in l : x.message_id = m /\ x.channel_id = c

\* was_sent_today with the two ids bound to the wrong columns
was_sent_today_Swapped(l, m, c, today) ==
    \E x \in l : x.message_id = c /\ x.channel_id = m /\ x.sent_date = today

\* SELECT 1 FROM sent_videos WHERE message_id=? AND channel_id=? AND
\* sent_date=today ... fetchone() is not None
was_sent_today(l, m, c, today) ==
    \E x \in l : x.message_id = m /\ x.channel_id = c /\ x.sent_date = today

\* INSERT OR IGNORE INTO sent_videos VALUES (m, c, today): the ledger after it
mark_as_sent(l, m, c, today) ==
    IF Conflicts(l, m, c) # {} THEN l ELSE l \cup {Row(m, c, today)}

(* db.py: the channels table *)

ChannelRow(c, n, a) == [channel_id |-> c, channel_name |-> n, active |-> a]

\* SELECT channel_id, channel_name FROM channels WHERE active=1
RECURSIVE get_channels(_)
get_channels(tbl) ==
    IF tbl = <<>> THEN <<>>
    ELSE LET rest == get_channels(Tail(tbl))
         IN  IF Head(tbl).active = 1
             THEN <<[channel_id |-> Head(tbl).channel_id,
                     channel_name |-> Head(tbl).channel_name]>> \o rest
             ELSE rest

\* the rows of a table other than those of channel c, in storage order
RECURSIVE Without(_, _)
Without(tbl, c) ==
    IF tbl = <<>> THEN <<>>
    ELSE IF Head(tbl).channel_id = c THEN Without(Tail(tbl), c)
         ELSE <<Head(tbl)>> \o Without(Tail(tbl), c)

\* INSERT OR REPLACE INTO channels VALUES (c, n, 1): the row of c, if
\* any, is replaced by a new row, stored last
add_channel(tbl, c, n) == Append(Without(tbl, c), ChannelRow(c, n, 1))

\* remove_channel as a DELETE of the row
remove_channel_Delete(tbl, c) == Without(tbl, c)

\* UPDATE channels SET active=0 WHERE channel_id=c AND active=1
remove_channel(tbl, c) ==
    [i \in 1..Len(tbl) |->
        IF tbl[i].channel_id = c /\ tbl[i].active = 1
        THEN [tbl[i] EXCEPT !.active = 0] ELSE tbl[i]]

\* cur.rowcount of that UPDATE
Rowcount(tbl, c) ==
    Cardinality({i \in 1..Len(tbl) : tbl[i].channel_id = c /\ tbl[i].active = 1})

---------------------------------------------------------------------------
(* The Message Source: pyrogram messages *)

\* A message of a channel; video = FALSE is a message without a video
Msg(i, t, v, d, n) == [id |-> i, date |-> t, video |-> v, duration |-> d, views |-> n]

NoMsg == Msg(0, 0, FALSE, None, None)

\* userbot.get_chat_history(channel_id, limit=SCAN_LIMIT)
get_chat_history(c) == Take(history[c], SCAN_LIMIT)

\* the filter without its duration test
Filtered_NoDurationTest(msg) == ~msg.video

\* not video or (video.duration or 0) < min_duration
Filtered(msg) == ~msg.video \/ OrElse(msg.duration, 0) < min_duration

\* key=lambda m: m.views or 0
ViewsKey(msg) == OrElse(msg.views, 0)

\* candidates.sort(key=..., reverse=True): Python's sort is stable, also
\* with reverse=True, so equal keys keep their order
RECURSIVE SortByViews(_)
SortByViews(s) ==
    IF s = <<>> THEN <<>>
    ELSE LET x    == s[Len(s)]
             init == SortByViews(SubSeq(s, 1, Len(s) - 1))
             k    == Cardinality({i \in 1..Len(init) : ViewsKey(init[i]) >= ViewsKey(x)})
         IN  SubSeq(init, 1, k) \o <<x>> \o SubSeq(init, k + 1, Len(init))

---------------------------------------------------------------------------
(* scanner.py: daily_job *)

\* an entry of a call's event log: what happened, for which channel and
\* message, with a number and a list where the event has them
Event(e, c, msg, x, l) ==
    [ev |-> e, c |-> c, m |-> msg, x |-> x, l |-> l, n |-> 0]

\* the entry of a message sent to the admin: which text, and the numbers
\* and channel names the text carries
ReportEvent(kind, sent, nerrors, shown) ==
    [ev |-> "report", c |-> kind, m |-> NoMsg, x |-> sent, l |-> shown, n |-> nerrors]

\* the local variables of a slot with no daily_job call in progress
IdleRun == [pc |-> "idle", channels |-> <<>>, cutoff |-> 0, total_sent |-> 0,
            scan_errors |-> <<>>, ci |-> 0, mi |-> 0, candidates |-> <<>>,
            top |-> <<>>, ti |-> 0, today |-> 0]

\* for channel_id, channel_name in channels: the next iteration, or the
\* summary report after the last one
NextChannel(v) ==
    IF v.ci + 1 > Len(v.channels)
    THEN [v EXCEPT !.pc = "report", !.ci = v.ci + 1, !.candidates = <<>>,
                   !.top = <<>>, !.ti = 0, !.mi = 0]
    ELSE [v EXCEPT !.pc = "scan", !.ci = v.ci + 1, !.candidates = <<>>,
                   !.top = <<>>, !.ti = 0, !.mi = 1]

\* the except clause followed by the dispatch of the candidates found
\* before the exception
ScanFailed_KeepCandidates(v) ==
    LET w == [v EXCEPT !.today = 0,
                       !.scan_errors = Append(v.scan_errors,
                                              v.channels[v.ci].channel_name)]
    IN  IF v.candidates = <<>> THEN NextChannel(w)
        ELSE [w EXCEPT !.pc = "copy", !.top = Take(v.candidates, VIDEOS_PER_CHANNEL),
                       !.ti = 1]

\* the except clause ending the for loop instead of continuing it
ScanFailed_Break(v) ==
    [v EXCEPT !.pc = "report", !.ci = Len(v.channels) + 1, !.candidates = <<>>,
              !.top = <<>>, !.ti = 0, !.mi = 0, !.today = 0,
              !.scan_errors = Append(v.scan_errors, v.channels[v.ci].channel_name)]

\* except Exception as exc: scan_errors.append(...); continue
ScanFailed(v) ==
    NextChannel([v EXCEPT !.today = 0,
                          !.scan_errors = Append(v.scan_errors,
                                                 v.channels[v.ci].channel_name)])

\* Selected without the sort: the first VIDEOS_PER_CHANNEL found
Selected_FirstFound(cands) == Take(cands, VIDEOS_PER_CHANNEL)

\* candidates.sort(...); top = candidates[:VIDEOS_PER_CHANNEL]
Selected(cands) == Take(SortByViews(cands), VIDEOS_PER_CHANNEL)

\* the end of the async for: if not candidates: continue; else sort, take
\* the top VIDEOS_PER_CHANNEL and start copying
ScanEnded(v) ==
    IF v.candidates = <<>> THEN NextChannel(v)
    ELSE [v EXCEPT !.pc = "copy",
                   !.candidates = SortByViews(v.candidates),
                   !.top = Selected(v.candidates),
                   !.ti = 1]

\* the test of the message's time left out
BeforeCutoff_Never(msg, cutoff) == FALSE

\* msg_time < cutoff
BeforeCutoff(msg, cutoff) == msg.date < cutoff

\* timedelta(LOOKBACK_HOURS): the first positional argument is days
Cutoff_Days(t) == t - LOOKBACK_HOURS * HOURS_PER_DAY

\* datetime.now(timezone.utc) - timedelta(hours=LOOKBACK_HOURS)
Cutoff(t) == t - LOOKBACK_HOURS

Ids(s) == [i \in 1..Len(s) |-> s[i].id]

\* for msg in top: the next iteration, or the next channel
NextItem(v) ==
    IF v.ti + 1 > Len(v.top) THEN NextChannel(v)
    ELSE [v EXCEPT !.pc = "copy", !.ti = v.ti + 1]

Step(r, v, es) ==
    /\ run' = [run EXCEPT ![r] = v]
    /\ events' = [events EXCEPT ![r] = events[r] \o es]

\* A daily_job call starts: the scheduler fires job "daily_send" (main.py),
\* or the admin sends /sendnow (handlers.py, cmd_send_now).  Neither place
\* looks at whether another call is in progress.
Start(r) ==
    /\ run[r].pc = "idle"
    /\ nruns < MaxRuns
    /\ nruns' = nruns + 1
    /\ run' = [run EXCEPT ![r] = [IdleRun EXCEPT !.pc = "get_channels"]]
    /\ events' = [events EXCEPT ![r] = <<>>]
    /\ UNCHANGED <<settings, job, cmd, accepted, ncmds, tz, now, ledger, channels, history, api>>

\* channels = await get_channels(data_dir); if not channels: report and
\* return; cutoff = now - LOOKBACK_HOURS; the first channel's scan begins
GetChannels(r) ==
    /\ run[r].pc = "get_channels"
    /\ LET chs == get_channels(channels)
           v   == [run[r] EXCEPT !.channels = chs,
                                 !.cutoff = Cutoff(now),
                                 !.total_sent = 0, !.scan_errors = <<>>, !.ci = 0]
       IN  \/ /\ chs = <<>>
              /\ Step(r, [run[r] EXCEPT !.pc = "send_no_channels"], <<>>)
           \/ /\ chs # <<>>
              /\ Step(r, NextChannel(v),
                      <<Event("started", "", NoMsg, now,
                              [i \in 1..Len(chs) |-> chs[i].channel_id])>>)
           \/ Step(r, [run[r] EXCEPT !.pc = "send_failure"],
                    <<Event("raised", "get_channels", NoMsg, 0, <<>>)>>)
    /\ UNCHANGED <<settings, job, cmd, accepted, ncmds, tz, now, ledger, channels, history, api, nruns>>

\* One iteration of `async for msg in userbot.get_chat_history(...)`, up
\* to the next await: the iterator raises, is exhausted, or yields msg.
Scan(r) ==
    /\ run[r].pc = "scan"
    /\ LET v == run[r]
           c == v.channels[v.ci].channel_id
           h == get_chat_history(c)
       IN  \/ Step(r, ScanFailed(v), <<Event("scan_error", c, NoMsg, 0, <<>>)>>)
           \/ /\ v.mi > Len(h)
              /\ Step(r, ScanEnded(v),
                      <<Event("scanned", c, NoMsg, 0, Ids(ScanEnded(v).top))>>)
           \/ /\ v.mi <= Len(h)
              /\ LET msg == h[v.mi]
                 IN  IF BeforeCutoff(msg, v.cutoff)
                     THEN Step(r, ScanEnded(v),
                               <<Event("scanned", c, NoMsg, 0, Ids(ScanEnded(v).top))>>)
                     ELSE IF Filtered(msg)
                     THEN Step(r, [v EXCEPT !.mi = v.mi + 1], <<>>)
                     ELSE Step(r, [v EXCEPT !.pc = "was_sent", !.today = Today], <<>>)
    /\ UNCHANGED <<settings, job, cmd, accepted, ncmds, tz, now, ledger, channels, history, api, nruns>>

\* WasSent with a was_sent_today that raises taken as "not sent": the
\* message becomes a candidate and the scan goes on
WasSent_FailOpen(r) ==
    /\ run[r].pc = "was_sent"
    /\ LET v   == run[r]
           c   == v.channels[v.ci].channel_id
           msg == get_chat_history(c)[v.mi]
           rec == IF Row(Str(msg.id), c, v.today) \in ledger THEN 1 ELSE 0
           add == [v EXCEPT !.pc = "scan", !.mi = v.mi + 1, !.today = 0,
                            !.candidates = Append(v.candidates, msg)]
       IN  \/ Step(r, add, <<Event("scan_error", c, msg, 0, <<>>),
                             Event("candidate", c, msg, 0, <<>>)>>)
           \/ IF was_sent_today(ledger, Str(msg.id), c, v.today)
              THEN Step(r, [v EXCEPT !.pc = "scan", !.mi = v.mi + 1, !.today = 0],
                        <<Event("checked", c, msg, rec, <<>>)>>)
              ELSE Step(r, add, <<Event("checked", c, msg, rec, <<>>),
                                  Event("candidate", c, msg, 0, <<>>)>>)
    /\ UNCHANGED <<settings, job, cmd, accepted, ncmds, tz, now, ledger, channels, history, api, nruns>>

\* if await was_sent_today(...): continue; candidates.append(msg).
\* v.today is the date was_sent_today took when it was called.
WasSent(r) ==
    /\ run[r].pc = "was_sent"
    /\ LET v   == run[r]
           c   == v.channels[v.ci].channel_id
           msg == get_chat_history(c)[v.mi]
           \* what the ledger holds at this moment, for the log
           rec == IF Row(Str(msg.id), c, v.today) \in ledger THEN 1 ELSE 0
       IN  \/ Step(r, ScanFailed(v), <<Event("scan_error", c, msg, 0, <<>>)>>)
           \/ IF was_sent_today(ledger, Str(msg.id), c, v.today)
              THEN Step(r, [v EXCEPT !.pc = "scan", !.mi = v.mi + 1, !.today = 0],
                        <<Event("checked", c, msg, rec, <<>>)>>)
              ELSE Step(r, [v EXCEPT !.pc = "scan", !.mi = v.mi + 1, !.today = 0,
                                     !.candidates = Append(v.candidates, msg)],
                        <<Event("checked", c, msg, rec, <<>>),
                          Event("candidate", c, msg, 0, <<>>)>>)
    /\ UNCHANGED <<settings, job, cmd, accepted, ncmds, tz, now, ledger, channels, history, api, nruns>>

\* Copy with mark_as_sent outside the try's happy path: a copy that
\* raises is marked all the same
Copy_MarkAnyway(r) ==
    /\ run[r].pc = "copy"
    /\ LET v   == run[r]
           c   == v.channels[v.ci].channel_id
           msg == v.top[v.ti]
       IN  \/ Step(r, [v EXCEPT !.pc = "mark", !.today = Today],
                    <<Event("copied", c, msg, 0, <<>>)>>)
           \/ Step(r, [v EXCEPT !.pc = "mark", !.today = Today],
                    <<Event("copy_failed", c, msg, 0, <<>>)>>)
    /\ UNCHANGED <<settings, job, cmd, accepted, ncmds, tz, now, ledger, channels, history, api, nruns>>

\* Copy with the try around the whole for loop: a copy that raises ends
\* the channel's loop
Copy_AbortOnFailure(r) ==
    /\ run[r].pc = "copy"
    /\ LET v   == run[r]
           c   == v.channels[v.ci].channel_id
           msg == v.top[v.ti]
       IN  \/ Step(r, [v EXCEPT !.pc = "mark", !.today = Today],
                    <<Event("copied", c, msg, 0, <<>>)>>)
           \/ Step(r, NextChannel(v), <<Event("copy_failed", c, msg, 0, <<>>)>>)
    /\ UNCHANGED <<settings, job, cmd, accepted, ncmds, tz, now, ledger, channels, history, api, nruns>>

\* await userbot.copy_message(...): it returns, and mark_as_sent is
\* called, or it raises, and the except clause logs it
Copy(r) ==
    /\ run[r].pc = "copy"
    /\ LET v   == run[r]
           c   == v.channels[v.ci].channel_id
           msg == v.top[v.ti]
       IN  \/ Step(r, [v EXCEPT !.pc = "mark", !.today = Today],
                    <<Event("copied", c, msg, 0, <<>>)>>)
           \/ Step(r, NextItem(v), <<Event("copy_failed", c, msg, 0, <<>>)>>)
    /\ UNCHANGED <<settings, job, cmd, accepted, ncmds, tz, now, ledger, channels, history, api, nruns>>

\* await mark_as_sent(...); total_sent += 1 -- or mark_as_sent raises and
\* the same except clause logs it.  v.today is the date mark_as_sent took
\* when it was called.
Mark(r) ==
    /\ run[r].pc = "mark"
    /\ LET v   == run[r]
           c   == v.channels[v.ci].channel_id
           msg == v.top[v.ti]
       IN  \/ /\ ledger' = mark_as_sent(ledger, Str(msg.id), c, v.today)
              /\ Step(r, NextItem([v EXCEPT !.total_sent = v.total_sent + 1, !.today = 0]),
                      <<Event("marked", c, msg, 0, <<>>)>>)
           \/ /\ ledger' = ledger
              /\ Step(r, NextItem([v EXCEPT !.today = 0]),
                      <<Event("mark_failed", c, msg, 0, <<>>)>>)
    /\ UNCHANGED <<settings, job, cmd, accepted, ncmds, tz, now, channels, history, api, nruns>>

\* the summary without its test of scan_errors
ReportKind_ErrorsIgnored(v) ==
    IF v.total_sent = 0 THEN "no_videos" ELSE "sent"

\* if total_sent == 0: if scan_errors: ... else: ...; the text of the
\* summary report
ReportKind(v) ==
    IF v.total_sent = 0
    THEN IF v.scan_errors # <<>> THEN "scan_errors" ELSE "no_videos"
    ELSE "sent"

\* The summary report: await bot.send_message(...) with the text the
\* counters select.  With total_sent > 0 and scan errors a second message
\* follows.  A send that raises is caught by the outer except clause.
Report(r) ==
    /\ run[r].pc = "report"
    /\ LET v     == run[r]
           shown == Take(v.scan_errors, ERRORS_SHOWN)
           kind  == ReportKind(v)
           l     == IF kind = "scan_errors" THEN shown ELSE <<>>
       IN  \/ Step(r, IF v.total_sent # 0 /\ v.scan_errors # <<>>
                       THEN [v EXCEPT !.pc = "send_errors"] ELSE IdleRun,
                    <<ReportEvent(kind, v.total_sent, Len(v.scan_errors), l)>>)
           \/ Step(r, [v EXCEPT !.pc = "send_failure"],
                    <<Event("raised", "send_message", NoMsg, 0, <<>>)>>)
    /\ UNCHANGED <<settings, job, cmd, accepted, ncmds, tz, now, ledger, channels, history, api, nruns>>

\* if scan_errors: await bot.send_message(...) after the success report
SendErrors(r) ==
    /\ run[r].pc = "send_errors"
    /\ LET v == run[r]
       IN  \/ Step(r, IdleRun,
                    <<ReportEvent("unreachable", v.total_sent, Len(v.scan_errors),
                                  Take(v.scan_errors, ERRORS_SHOWN))>>)
           \/ Step(r, [v EXCEPT !.pc = "send_failure"],
                    <<Event("raised", "send_message", NoMsg, 0, <<>>)>>)
    /\ UNCHANGED <<settings, job, cmd, accepted, ncmds, tz, now, ledger, channels, history, api, nruns>>

\* if not channels: await bot.send_message(...); return
SendNoChannels(r) ==
    /\ run[r].pc = "send_no_channels"
    /\ \/ Step(r, IdleRun, <<ReportEvent("no_channels", 0, 0, <<>>)>>)
       \/ Step(r, [run[r] EXCEPT !.pc = "send_failure"],
                <<Event("raised", "send_message", NoMsg, 0, <<>>)>>)
    /\ UNCHANGED <<settings, job, cmd, accepted, ncmds, tz, now, ledger, channels, history, api, nruns>>

\* the except clause logging the error only, without a message to the admin
SendFailure_NoReport(r) ==
    /\ run[r].pc = "send_failure"
    /\ Step(r, IdleRun, <<>>)
    /\ UNCHANGED <<settings, job, cmd, accepted, ncmds, tz, now, ledger, channels, history, api, nruns>>

\* except Exception as exc: try: await bot.send_message(...) except: pass
SendFailure(r) ==
    /\ run[r].pc = "send_failure"
    /\ \/ Step(r, IdleRun, <<ReportEvent("failure", 0, 0, <<>>)>>)
       \/ Step(r, IdleRun, <<Event("raised", "send_message", NoMsg, 0, <<>>)>>)
    /\ UNCHANGED <<settings, job, cmd, accepted, ncmds, tz, now, ledger, channels, history, api, nruns>>

\* Time passes
Tick ==
    /\ now + TickHours <= StartNow + MaxTicks * TickHours
    /\ now' = now + TickHours
    /\ UNCHANGED <<settings, job, cmd, accepted, ncmds, tz, ledger, channels, history, run, events, api, nruns>>

---------------------------------------------------------------------------
(* db.py: the settings table; main.py and handlers.py: the schedule *)

\* the bounds of the range test, and main's defaults "12" and "0"
MAX_HOUR == 23
MAX_MINUTE == 59
DEFAULT_HOUR == 12
DEFAULT_MINUTE == 0

\* /settime commands per behaviour
MaxCmds == 3

\* the handler calls that can be in progress together
Cmds == {"first", "second"}

\* a key without a row
NoValue == ""

EmptySettings == [send_hour |-> NoValue, send_minute |-> NoValue]

\* row[0] if row else default
get_setting(tbl, key, default) == IF tbl[key] = NoValue THEN default ELSE tbl[key]

\* INSERT OR REPLACE INTO settings (key, value) VALUES (key, str(value))
set_setting(tbl, key, value) == [tbl EXCEPT ![key] = value]

\* int() of a string written by str()
IntOf(str) == CHOOSE n \in 0..MAX_MINUTE : Str(n) = str

\* main: send_hour and send_minute as loaded for add_job
LoadedSchedule(tbl) ==
    <<IntOf(get_setting(tbl, "send_hour", Str(DEFAULT_HOUR))),
      IntOf(get_setting(tbl, "send_minute", Str(DEFAULT_MINUTE)))>>

\* The argument of /settime split at ":": each part is the text of an
\* integer, or some other text
Part(n) == [int |-> TRUE, val |-> n]
Junk == [int |-> FALSE, val |-> 0]

\* 0 <= hour <= 23 and 0 <= minute <= 59
InRange(hour, minute) ==
    /\ 0 <= hour /\ hour <= MAX_HOUR
    /\ 0 <= minute /\ minute <= MAX_MINUTE

\* h, m = time_str.split(":"); hour, minute = int(h), int(m); the range
\* test: no ValueError is raised
Accepted(parts) ==
    /\ Len(parts) = 2
    /\ parts[1].int /\ parts[2].int
    /\ InRange(parts[1].val, parts[2].val)

IdleCmd == [pc |-> "idle", hour |-> 0, minute |-> 0]

\* cmd_set_time up to its first await: an argument that does not parse
\* gets the error reply, one that does goes on to set_setting
SetTime(k, parts) ==
    /\ cmd[k].pc = "idle"
    /\ ncmds < MaxCmds
    /\ ncmds' = ncmds + 1
    /\ IF Accepted(parts)
       THEN /\ cmd' = [cmd EXCEPT ![k] = [pc |-> "set_hour", hour |-> parts[1].val,
                                          minute |-> parts[2].val]]
            /\ accepted' = <<parts[1].val, parts[2].val>>
       ELSE UNCHANGED <<cmd, accepted>>
    /\ UNCHANGED <<settings, job, tz, now, ledger, channels, history, run, events,
                   api, nruns>>

\* await set_setting(data_dir, "send_hour", str(hour)): the row is
\* written, or the call raises and the handler ends
SetHour(k) ==
    /\ cmd[k].pc = "set_hour"
    /\ \/ /\ settings' = set_setting(settings, "send_hour", Str(cmd[k].hour))
          /\ cmd' = [cmd EXCEPT ![k].pc = "set_minute"]
       \/ /\ settings' = settings
          /\ cmd' = [cmd EXCEPT ![k] = IdleCmd]
    /\ UNCHANGED <<job, accepted, ncmds, tz, now, ledger, channels, history, run,
                   events, api, nruns>>

\* await set_setting(data_dir, "send_minute", str(minute)), likewise
SetMinute(k) ==
    /\ cmd[k].pc = "set_minute"
    /\ \/ /\ settings' = set_setting(settings, "send_minute", Str(cmd[k].minute))
          /\ cmd' = [cmd EXCEPT ![k].pc = "reschedule"]
       \/ /\ settings' = settings
          /\ cmd' = [cmd EXCEPT ![k] = IdleCmd]
    /\ UNCHANGED <<job, accepted, ncmds, tz, now, ledger, channels, history, run,
                   events, api, nruns>>

\* scheduler.reschedule_job("daily_send", trigger="cron", hour, minute),
\* when the handler is resumed after the second set_setting
Reschedule(k) ==
    /\ cmd[k].pc = "reschedule"
    /\ job' = <<cmd[k].hour, cmd[k].minute>>
    /\ cmd' = [cmd EXCEPT ![k] = IdleCmd]
    /\ UNCHANGED <<settings, accepted, ncmds, tz, now, ledger, channels, history,
                   run, events, api, nruns>>

\* The process is restarted with no handler in progress: main loads the
\* schedule from the settings and adds the job
Restart ==
    /\ \A k \in Cmds : cmd[k].pc = "idle"
    /\ \A r \in Runs : run[r].pc = "idle"
    /\ job' = LoadedSchedule(settings)
    /\ UNCHANGED <<settings, cmd, accepted, ncmds, tz, now, ledger, channels,
                   history, run, events, api, nruns>>

\* the first start on a new data directory: no settings, the job at the
\* default time
ScheduleAtStart ==
    /\ settings = EmptySettings
    /\ job = LoadedSchedule(EmptySettings)
    /\ cmd = [k \in Cmds |-> IdleCmd]
    /\ accepted = LoadedSchedule(EmptySettings)
    /\ ncmds = 0

---------------------------------------------------------------------------
(* The inputs: channel tables and message histories *)

\* messages per channel history
MaxHist == 2

Fresh == StartNow - 1
AtCutoff == StartNow - LOOKBACK_HOURS

\* The kinds of message a history is made of: a video of exactly the
\* minimum duration, one a second shorter, one of unknown duration, a
\* message without video, a video posted exactly LOOKBACK_HOURS before the
\* first run, and an older one.
Shapes ==
    { Msg(0, Fresh, TRUE, min_duration, 2),
      Msg(0, Fresh, TRUE, min_duration - 1, 9),
      Msg(0, Fresh, TRUE, None, 9),
      Msg(0, Fresh, FALSE, None, None),
      Msg(0, AtCutoff, TRUE, min_duration, None),
      Msg(0, AtCutoff - 1, TRUE, min_duration + 1, 5) }

\* message ids are per channel: the i-th message of a history has id i
Numbered(s) == [i \in 1..Len(s) |-> [s[i] EXCEPT !.id = i]]

Histories(S, n) == {Numbered(s) : s \in UNION {[1..k -> S] : k \in 0..n}}

\* the state at the start, on a host whose local time is UTC
IdleAll ==
    /\ run = [r \in Runs |-> IdleRun]
    /\ events = [r \in Runs |-> <<>>]
    /\ api = <<>>
    /\ nruns = 0
    /\ now = StartNow
    /\ ledger = {}
    /\ tz = 0
    /\ ScheduleAtStart

Qualifying == Msg(0, Fresh, TRUE, min_duration, 2)

\* No active channel (A was removed), or A alone, or A and B.  A's history
\* is empty or one qualifying video, B's is empty.
Init ==
    /\ IdleAll
    /\ channels \in { <<ChannelRow("A", "A", 0)>>,
                      <<ChannelRow("A", "A", 1)>>,
                      <<ChannelRow("A", "A", 1), ChannelRow("B", "B", 1)>> }
    /\ \E ha \in {<<>>, Numbered(<<Qualifying>>)} :
          history = [c \in {"A", "B"} |-> IF c = "A" THEN ha ELSE <<>>]

\* Channels A and B, A's history made of any of the shapes, B's empty; or
\* no active channel at all.
InitSerial ==
    /\ IdleAll
    /\ \E ha \in Histories(Shapes, MaxHist) :
          /\ history = [c \in {"A", "B"} |-> IF c = "A" THEN ha ELSE <<>>]
          /\ \/ channels = <<ChannelRow("A", "A", 1), ChannelRow("B", "B", 1)>>
             \/ /\ channels = <<ChannelRow("A", "A", 0), ChannelRow("B", "B", 0)>>
                /\ ha = <<>>

\* the steps of the daily_job calls in progress in the places R
RunSteps(R) ==
    \/ \E r \in R : GetChannels(r)
    \/ \E r \in R : Scan(r)
    \/ \E r \in R : WasSent(r)
    \/ \E r \in R : Copy(r)
    \/ \E r \in R : Mark(r)
    \/ \E r \in R : Report(r)
    \/ \E r \in R : SendErrors(r)
    \/ \E r \in R : SendNoChannels(r)
    \/ \E r \in R : SendFailure(r)

\* the steps of the daily_job calls started from the places R
JobSteps(R) ==
    \/ \E r \in R : Start(r)
    \/ RunSteps(R)

\* the same while time passes
NextOf(R) ==
    \/ JobSteps(R)
    \/ Tick

\* The program: the scheduled job and /sendnow, which may overlap
Next == NextOf(Runs)

Spec == Init /\ [][Next]_vars

\* Runs of the scheduled job alone, one after the other
NextSerial == NextOf({"cron"})

SpecSerial == InitSerial /\ [][NextSerial]_vars

\* Runs of the scheduled job over the small histories, every call in
\* progress going on: each await of daily_job returns or raises in the
\* end, and the event loop resumes the call
SpecFair == Init /\ [][NextSerial]_vars /\ WF_vars(JobSteps({"cron"}))

---------------------------------------------------------------------------
(* The ledger functions of db.py called on their own *)

ApiMessages == {Str(1), Str(2)}
ApiChannels == {"A", "B"}

\* an entry of the call log: the function, its arguments, the date it
\* took, what it returned and the ledger it left
Call(f, m, c, d, res, l) ==
    [fn |-> f, message_id |-> m, channel_id |-> c, today |-> d,
     result |-> res, after |-> l]

\* await mark_as_sent(data_dir, m, c)
CallMarkAsSent(m, c) ==
    /\ Len(api) < MaxCalls
    /\ ledger' = mark_as_sent(ledger, m, c, Today)
    /\ api' = Append(api, Call("mark_as_sent", m, c, Today, FALSE, ledger'))
    /\ UNCHANGED <<settings, job, cmd, accepted, ncmds, tz, now, channels, history, run, events, nruns>>

\* await was_sent_today(data_dir, m, c)
CallWasSentToday(m, c) ==
    /\ Len(api) < MaxCalls
    /\ api' = Append(api, Call("was_sent_today", m, c, Today,
                               was_sent_today(ledger, m, c, Today), ledger))
    /\ UNCHANGED <<settings, job, cmd, accepted, ncmds, tz, now, ledger, channels, history, run, events, nruns>>

InitLedger ==
    /\ IdleAll
    /\ channels = <<>>
    /\ history = [c \in ApiChannels |-> <<>>]

NextLedger ==
    \/ \E m \in ApiMessages, c \in ApiChannels : CallMarkAsSent(m, c)
    \/ \E m \in ApiMessages, c \in ApiChannels : CallWasSentToday(m, c)
    \/ Tick

SpecLedger == InitLedger /\ [][NextLedger]_vars

---------------------------------------------------------------------------
(* Runs one after the other over a ledger written on an earlier date *)

\* a video posted on the day before the first run, still inside the
\* lookback window
Earlier == Msg(0, AtCutoff, TRUE, min_duration, None)

\* a daily_job call starts while no other call is in progress
StartAlone(r) ==
    /\ \A q \in Runs : run[q].pc = "idle"
    /\ Start(r)

\* The tables of Init; A's history is empty or the one video, and the
\* ledger is empty or holds the video's row, published and recorded on
\* the day it was posted.
InitRollover ==
    /\ tz = 0
    /\ ScheduleAtStart
    /\ run = [r \in Runs |-> IdleRun]
    /\ events = [r \in Runs |-> <<>>]
    /\ api = <<>>
    /\ nruns = 0
    /\ now = StartNow
    /\ channels \in { <<ChannelRow("A", "A", 0)>>,
                      <<ChannelRow("A", "A", 1)>>,
                      <<ChannelRow("A", "A", 1), ChannelRow("B", "B", 1)>> }
    /\ \E ha \in {<<>>, Numbered(<<Earlier>>)} :
          /\ history = [c \in {"A", "B"} |-> IF c = "A" THEN ha ELSE <<>>]
          /\ ledger \in {{}} \cup {{Row(Str(ha[i].id), "A", DateOf(ha[i].date))} :
                                      i \in 1..Len(ha)}

\* the scheduled job and /sendnow, never together, within one day
NextRollover ==
    \/ \E r \in Runs : StartAlone(r)
    \/ RunSteps(Runs)

SpecRollover == InitRollover /\ [][NextRollover]_vars

---------------------------------------------------------------------------
(* The channel functions of db.py called while the job runs *)

\* await add_channel(data_dir, c, n), from /addchannel or a forwarded post
CallAddChannel(c) ==
    /\ Len(api) < MaxCalls
    /\ channels' = add_channel(channels, c, c)
    /\ api' = Append(api, Call("add_channel", "", c, 0, FALSE, channels'))
    /\ UNCHANGED <<settings, job, cmd, accepted, ncmds, tz, now, ledger, history, run, events, nruns>>

\* await remove_channel(data_dir, c): the table after it and rowcount > 0
CallRemoveChannel(c) ==
    /\ Len(api) < MaxCalls
    /\ channels' = remove_channel(channels, c)
    /\ api' = Append(api, Call("remove_channel", "", c, 0,
                               Rowcount(channels, c) > 0, channels'))
    /\ UNCHANGED <<settings, job, cmd, accepted, ncmds, tz, now, ledger, history, run, events, nruns>>

\* The table is empty after init_db; A holds one qualifying video
InitChannels ==
    /\ IdleAll
    /\ channels = <<>>
    /\ history = [c \in ApiChannels |->
                     IF c = "A" THEN Numbered(<<Qualifying>>) ELSE <<>>]

NextChannels ==
    \/ \E c \in ApiChannels : CallAddChannel(c)
    \/ \E c \in ApiChannels : CallRemoveChannel(c)
    \/ JobSteps({"cron"})

SpecChannels == InitChannels /\ [][NextChannels]_vars

---------------------------------------------------------------------------
(* /settime commands *)

\* the arguments tried: times in range, the last minute of the day, an
\* hour and a minute past the range, a negative hour, text that is no
\* number, too few and too many parts
TimeInputs ==
    { <<Part(18), Part(30)>>, <<Part(7), Part(5)>>,
      <<Part(MAX_HOUR), Part(MAX_MINUTE)>>,
      <<Part(MAX_HOUR + 1), Part(0)>>, <<Part(DEFAULT_HOUR), Part(MAX_MINUTE + 1)>>,
      <<Part(0 - 1), Part(0)>>,
      <<Junk, Part(30)>>, <<Part(18)>>, <<Part(18), Part(30), Part(0)>> }

InitTime ==
    /\ IdleAll
    /\ channels = <<>>
    /\ history = [c \in ApiChannels |-> <<>>]

NextTime ==
    \/ \E k \in Cmds, parts \in TimeInputs : SetTime(k, parts)
    \/ \E k \in Cmds : SetHour(k)
    \/ \E k \in Cmds : SetMinute(k)
    \/ \E k \in Cmds : Reschedule(k)
    \/ Restart

SpecTime == InitTime /\ [][NextTime]_vars

\* the host's time zone is UTC or half a day to either side of it
MaxOffset == TickHours
HostOffsets == {0 - MaxOffset, 0, MaxOffset}

\* The ledger functions on a host of any of these time zones
InitZone ==
    /\ tz \in HostOffsets
    /\ ScheduleAtStart
    /\ run = [r \in Runs |-> IdleRun]
    /\ events = [r \in Runs |-> <<>>]
    /\ api = <<>>
    /\ nruns = 0
    /\ now = StartNow
    /\ ledger = {}
    /\ channels = <<>>
    /\ history = [c \in ApiChannels |-> <<>>]

SpecZone == InitZone /\ [][NextLedger]_vars

---------------------------------------------------------------------------
(* A run over more channels than a report lists errors *)

WideChannels == 1..(ERRORS_SHOWN + 1)

WideTable == [i \in WideChannels |-> ChannelRow(Str(i), Str(i), 1)]

\* ERRORS_SHOWN + 1 registered channels, at most one of them with a
\* message, a qualifying video; or no active channel
InitWide ==
    /\ IdleAll
    /\ \E k \in {0} \cup WideChannels :
          /\ history = [c \in {Str(i) : i \in WideChannels} |->
                           IF c = Str(k) THEN Numbered(<<Qualifying>>) ELSE <<>>]
          /\ \/ channels = WideTable
             \/ /\ channels = <<ChannelRow(Str(1), Str(1), 0)>>
                /\ k = 0

SpecWide == InitWide /\ [][NextSerial]_vars

---------------------------------------------------------------------------
(* A run over a channel with more candidates than a run selects *)

\* candidates in the channel: one more than a run selects
SelectLen == VIDEOS_PER_CHANNEL + 1

\* the view counts of the candidates: unknown, none, some
SelectViews == {None, 0, 7}

\* Channels A and B, A's history made of up to SelectLen fresh videos of
\* sufficient duration whose view counts vary, B's empty; or no active
\* channel at all.
InitSelect ==
    /\ IdleAll
    /\ \E ha \in Histories({Msg(0, Fresh, TRUE, min_duration, n) : n \in SelectViews},
                           SelectLen) :
          /\ history = [c \in {"A", "B"} |-> IF c = "A" THEN ha ELSE <<>>]
          /\ \/ channels = <<ChannelRow("A", "A", 1), ChannelRow("B", "B", 1)>>
             \/ /\ channels = <<ChannelRow("A", "A", 0), ChannelRow("B", "B", 0)>>
                /\ ha = <<>>

\* Runs of the scheduled job alone, within one hour of the clock
NextSelect == JobSteps({"cron"})

SpecSelect == InitSelect /\ [][NextSelect]_vars

---------------------------------------------------------------------------
(* Claims about the ledger functions, under SpecLedger *)

IsMark(e) == e.fn = "mark_as_sent"

\* the rows of (m, c) dated d in a ledger
RowsOn(l, m, c, d) ==
    {x \in l : x.message_id = m /\ x.channel_id = c /\ x.sent_date = d}

\* C1: two calls of mark_as_sent(m, c) on the same calendar date leave
\* exactly one sent_videos row of (m, c) with that date, and
\* was_sent_today(m, c) is true after the first call and after the second.
C1_MarkTwiceOneRecord ==
    \A i, j \in 1..Len(api) :
        ( /\ i < j
          /\ IsMark(api[i]) /\ IsMark(api[j])
          /\ api[i].message_id = api[j].message_id
          /\ api[i].channel_id = api[j].channel_id
          /\ api[i].today = api[j].today )
        => LET m == api[i].message_id
               c == api[i].channel_id
               d == api[i].today
           IN  /\ Cardinality(RowsOn(api[j].after, m, c, d)) = 1
               /\ was_sent_today(api[i].after, m, c, d)
               /\ was_sent_today(api[j].after, m, c, d)

\* C2: after mark_as_sent(m, c) returns on date d the ledger holds the row
\* (m, c, d) and was_sent_today(m, c) on date d is true, whatever the
\* ledger held before, a row of (m, c) with an earlier date included.
C2_MarkedIsSentToday ==
    \A i \in 1..Len(api) :
        IsMark(api[i])
        => /\ Row(api[i].message_id, api[i].channel_id, api[i].today) \in api[i].after
           /\ was_sent_today(api[i].after, api[i].message_id, api[i].channel_id,
                             api[i].today)

---------------------------------------------------------------------------
(* Claims about daily_job, read off the event logs *)

InProgress(r) == run[r].pc # "idle"

\* the places in r's log of the events named in E about message id of c
Places(r, E, c, id) ==
    {i \in 1..Len(events[r]) :
        /\ events[r][i].ev \in E
        /\ events[r][i].c = c
        /\ events[r][i].m.id = id}

Attempts == {"copied", "copy_failed"}

\* C3: within one run, a message for which the ledger held a row dated
\* today when the run examined it is not added to the candidates and is
\* not published (nor attempted) by that run.
C3_SentTodayNotSelected ==
    \A r \in Runs : \A i \in 1..Len(events[r]) :
        LET e == events[r][i]
        IN  (e.ev = "checked" /\ e.x = 1)
            => Places(r, Attempts \cup {"candidate"}, e.c, e.m.id) = {}

\* a finished run skipped a message the ledger held as sent today, which
\* another run had published and marked
C3_Witness ==
    \E r \in Runs : \E i \in 1..Len(events[r]) :
        /\ events[r][i].ev = "checked" /\ events[r][i].x = 1
        /\ ~InProgress(r)
        /\ \E q \in Runs \ {r} :
              Places(q, {"marked"}, events[r][i].c, events[r][i].m.id) # {}

\* C5: runs are serialized: no two daily_job calls are in progress
\* together, and so no message is copied by two overlapping calls.
C5_RunsSerialized ==
    /\ Cardinality({r \in Runs : InProgress(r)}) <= 1
    /\ \A r, q \in Runs :
          (r # q /\ InProgress(r) /\ InProgress(q))
          => \A i \in 1..Len(events[r]) :
                events[r][i].ev = "copied"
                => Places(q, {"copied"}, events[r][i].c, events[r][i].m.id) = {}

\* C6 (order): in a run's log every mark_as_sent call of a message comes
\* after a successful copy of it, and a message whose copy failed has none.
MarkFollowsCopy ==
    \A r \in Runs : \A j \in 1..Len(events[r]) :
        LET e == events[r][j]
        IN  /\ e.ev \in {"marked", "mark_failed"}
               => \E i \in Places(r, {"copied"}, e.c, e.m.id) : i < j
            /\ e.ev = "copy_failed"
               => Places(r, {"marked", "mark_failed"}, e.c, e.m.id) = {}

\* C6 (ledger): a step that adds a row to the ledger adds the row of a
\* message that the run taking the step has copied before.
RowsArePublished ==
    \A x \in ledger' \ ledger :
        \E r \in Runs :
            /\ events'[r] # events[r]
            /\ \E i \in 1..Len(events[r]) :
                  /\ events[r][i].ev = "copied"
                  /\ Str(events[r][i].m.id) = x.message_id
                  /\ events[r][i].c = x.channel_id

\* C6: mark_as_sent is called only after copy_message returned for the
\* same message in the same run, and never for a message whose copy
\* failed; every row a run writes is of a message it has published.
C6_MarkOnlyAfterCopy == []MarkFollowsCopy /\ [][RowsArePublished]_vars

\* one run's copy failed and wrote nothing while the other copied the
\* message and wrote its row
C6_Witness ==
    \E r, q \in Runs :
        /\ \E i \in 1..Len(events[r]) : events[r][i].ev = "copy_failed"
        /\ \E i \in 1..Len(events[q]) : events[q][i].ev = "marked"
        /\ ledger # {}

---------------------------------------------------------------------------
(* Claims about one run's filters, dispatch and report, under SpecSerial *)

\* the events of r's log named in E
EventsOf(r, E) == {i \in 1..Len(events[r]) : events[r][i].ev \in E}

\* the duration of a message's video, a missing one counting as 0
DurationOf(msg) == IF msg.duration = None THEN 0 ELSE msg.duration

\* C4: no message without a video, and none whose duration (a missing one
\* counting as 0) is below min_duration, becomes a candidate or is
\* published; a duration equal to min_duration passes (C4_Witness).
C4_DurationFilter ==
    \A r \in Runs : \A i \in EventsOf(r, Attempts \cup {"candidate"}) :
        /\ events[r][i].m.video
        /\ DurationOf(events[r][i].m) >= min_duration

\* a video of exactly min_duration was published
C4_Witness ==
    \E r \in Runs : \E i \in EventsOf(r, {"copied"}) :
        /\ events[r][i].m.video
        /\ events[r][i].m.duration = min_duration

\* the summary reports: those that carry total_sent
Summaries == {"sent", "no_videos", "scan_errors"}

\* C7: a message whose copy succeeded counts as sent also when the
\* following mark_as_sent raises: the summary report's count is the
\* number of messages the run copied.
C7_CopiedCountsAsSent ==
    \A r \in Runs : \A i \in EventsOf(r, {"report"}) :
        events[r][i].c \in Summaries
        => events[r][i].x = Cardinality(EventsOf(r, {"copied"}))

\* C9 (once): no message has two publish attempts in one run.
AttemptedOnce ==
    \A r \in Runs : \A i, j \in EventsOf(r, Attempts) :
        (events[r][i].c = events[r][j].c /\ events[r][i].m.id = events[r][j].m.id)
        => i = j

\* C9 (all): every message selected for a channel gets its attempt: once
\* the channel's loop is over all of them have one, and while it runs
\* the ones before the current item have.
AllAttempted ==
    \A r \in Runs : \A i \in EventsOf(r, {"scanned"}) :
        LET e == events[r][i]
            current == /\ run[r].pc \in {"copy", "mark"}
                       /\ run[r].channels[run[r].ci].channel_id = e.c
        IN  \A k \in 1..Len(e.l) :
                \/ \E j \in Places(r, Attempts, e.c, e.l[k]) : j > i
                \/ current /\ run[r].ti <= k

\* C9: a message whose copy fails is skipped, the remaining selected
\* messages are still attempted, and no message is attempted twice in
\* a run.
C9_FailedCopySkipped == AttemptedOnce /\ AllAttempted

\* a copy failed and a later selected message of the run was copied
C9_Witness ==
    \E r \in Runs : \E i \in EventsOf(r, {"copy_failed"}) :
        \E j \in EventsOf(r, {"copied"}) : i < j /\ ~InProgress(r)

\* the instant at which r's call computed its cutoff
StartedAt(r) == events[r][CHOOSE i \in EventsOf(r, {"started"}) : TRUE].x

\* C10 (as claimed): a message posted exactly LOOKBACK_HOURS before the
\* run computed its cutoff never becomes a candidate and is never
\* published.
C10_AtCutoffExcluded ==
    \A r \in Runs : \A i \in EventsOf(r, Attempts \cup {"candidate"}) :
        events[r][i].m.date # StartedAt(r) - LOOKBACK_HOURS

\* C10 (amended): only the messages posted strictly before the cutoff,
\* now - LOOKBACK_HOURS at the start of the run, are excluded: every
\* candidate and every published message was posted at the cutoff or
\* later (C10_Witness: one posted exactly at the cutoff is published).
C10_BeforeCutoffExcluded ==
    \A r \in Runs : \A i \in EventsOf(r, Attempts \cup {"candidate"}) :
        events[r][i].m.date >= StartedAt(r) - LOOKBACK_HOURS

\* a message posted exactly at the cutoff was published
C10_Witness ==
    \E r \in Runs : \E i \in EventsOf(r, {"copied"}) :
        events[r][i].m.date = StartedAt(r) - LOOKBACK_HOURS

---------------------------------------------------------------------------
(* Claims about scan failures, under SpecWide *)

\* the channels of r's call, as get_channels returned them
ChannelsOf(r) ==
    IF EventsOf(r, {"started"}) = {} THEN <<>>
    ELSE events[r][CHOOSE i \in EventsOf(r, {"started"}) : TRUE].l

IsScanError(e) == e.ev = "scan_error"

\* the channels whose scan raised in r's call, in order
ErrorsOf(r) ==
    LET es == SelectSeq(events[r], IsScanError)
    IN  [i \in 1..Len(es) |-> es[i].c]

InLoop(r) == run[r].pc \in {"scan", "was_sent", "copy", "mark"}

\* the run was not cut short: its send_message calls all returned
Clean(r) == ~InProgress(r) /\ EventsOf(r, {"raised"}) = {}

\* the reports that carry the list of scan errors
ErrorReports == {"scan_errors", "unreachable"}

\* no channel is left out: every channel of the list has been scanned or
\* has failed, except those the loop has not reached yet
AllScanned ==
    \A r \in Runs : \A k \in 1..Len(ChannelsOf(r)) :
        \/ \E i \in EventsOf(r, {"scanned", "scan_error"}) :
              events[r][i].c = ChannelsOf(r)[k]
        \/ InLoop(r) /\ run[r].ci <= k

\* C8 (as claimed): when the scan of a channel raises the run goes on
\* with the channels after it, their candidates are selected and
\* published, and the channel's error is shown in the run's report.
C8_ErrorShown ==
    /\ AllScanned
    /\ AllAttempted
    /\ \A r \in Runs :
          Clean(r)
          => \A k \in 1..Len(ErrorsOf(r)) :
                \E i \in EventsOf(r, {"report"}) :
                    /\ events[r][i].c \in ErrorReports
                    /\ \E j \in 1..Len(events[r][i].l) :
                          events[r][i].l[j] = ErrorsOf(r)[k]

\* C8 (amended): when the scan of a channel raises the run goes on with
\* the channels after it, their candidates are selected and published,
\* and the error is recorded; the report carries the number of all scan
\* errors and lists the first ERRORS_SHOWN of them, in order.
C8_FirstErrorsShown ==
    /\ AllScanned
    /\ AllAttempted
    /\ \A r \in Runs :
          /\ InProgress(r) => ErrorsOf(r) = run[r].scan_errors
          /\ (Clean(r) /\ ErrorsOf(r) # <<>>)
             => \E i \in EventsOf(r, {"report"}) :
                   /\ events[r][i].c \in ErrorReports
                   /\ events[r][i].n = Len(ErrorsOf(r))
                   /\ events[r][i].l = Take(ErrorsOf(r), ERRORS_SHOWN)

\* a channel's scan raised, a later channel's video was copied, and the
\* report sent after the success report lists the failed channel
C8_Witness ==
    \E r \in Runs : \E i \in EventsOf(r, {"scan_error"}) :
        /\ Clean(r)
        /\ \E j \in EventsOf(r, {"copied"}) : i < j
        /\ \E j \in EventsOf(r, {"report"}) :
              /\ events[r][j].c = "unreachable"
              /\ events[r][j].l = <<events[r][i].c>>

---------------------------------------------------------------------------
(* Claims about selection, under SpecSelect *)

\* the view count of a message, a missing one counting as 0
ViewsOf(msg) == IF msg.views = None THEN 0 ELSE msg.views

\* the candidates of channel c in r's call, in discovery order
CandidatesOf(r, c) ==
    LET IsCandidate(e) == e.ev = "candidate" /\ e.c = c
        cs == SelectSeq(events[r], IsCandidate)
    IN  [k \in 1..Len(cs) |-> cs[k].m]

\* a goes before b in the order of selection: more views, or as many and
\* discovered earlier (cs is a channel's candidates, a and b places in it)
GoesBefore(cs, a, b) ==
    \/ ViewsOf(cs[a]) > ViewsOf(cs[b])
    \/ ViewsOf(cs[a]) = ViewsOf(cs[b]) /\ a < b

\* C11: the messages selected from a channel are
\* min(VIDEOS_PER_CHANNEL, number of candidates) of its candidates, in
\* the order of view count descending, a missing count as 0, equal counts
\* in discovery order, and every candidate left out comes after all of
\* them in that order; so at most VIDEOS_PER_CHANNEL are selected.
C11_TopNByViews ==
    \A r \in Runs : \A i \in EventsOf(r, {"scanned"}) :
        LET c   == events[r][i].c
            sel == events[r][i].l
            cs  == CandidatesOf(r, c)
            At(id) == CHOOSE p \in 1..Len(cs) : cs[p].id = id
        IN  /\ Len(sel) = Min(VIDEOS_PER_CHANNEL, Len(cs))
            /\ Len(sel) <= VIDEOS_PER_CHANNEL
            /\ \A k \in 1..Len(sel) : \E p \in 1..Len(cs) : cs[p].id = sel[k]
            /\ \A k, j \in 1..Len(sel) :
                  k < j => GoesBefore(cs, At(sel[k]), At(sel[j]))
            /\ \A p \in 1..Len(cs) :
                  (\A k \in 1..Len(sel) : sel[k] # cs[p].id)
                  => \A k \in 1..Len(sel) : GoesBefore(cs, At(sel[k]), p)

\* of SelectLen candidates VIDEOS_PER_CHANNEL were selected, not the
\* first found, two of them with no views and unknown views, and the one
\* left out has as many views as a selected one
C11_Witness ==
    \E r \in Runs : \E i \in EventsOf(r, {"scanned"}) :
        LET sel == events[r][i].l
            cs  == CandidatesOf(r, events[r][i].c)
        IN  /\ Len(cs) = SelectLen
            /\ Len(sel) = VIDEOS_PER_CHANNEL
            /\ sel # Take(Ids(cs), VIDEOS_PER_CHANNEL)
            /\ \E a, b \in 1..Len(cs) :
                  /\ cs[a].views = None /\ cs[b].views = 0
                  /\ \E k, j \in 1..Len(sel) : sel[k] = cs[a].id /\ sel[j] = cs[b].id
            /\ \E a, b \in 1..Len(cs) :
                  /\ ViewsOf(cs[a]) = ViewsOf(cs[b])
                  /\ \E k \in 1..Len(sel) : sel[k] = cs[a].id
                  /\ \A k \in 1..Len(sel) : sel[k] # cs[b].id

\* the messages r's call selected, over all its channels
SelectedIn(r) ==
    UNION { {<<events[r][i].c, events[r][i].l[k]>> : k \in 1..Len(events[r][i].l)} :
            i \in EventsOf(r, {"scanned"}) }

\* the square of the score duration * sqrt(views + 1), which orders
\* messages as the score does
ScoreSquared(msg) == DurationOf(msg) * DurationOf(msg) * (ViewsOf(msg) + 1)

\* C12: under the global-best policy a run selects at most one message
\* over all its channels, the candidate of the highest score
\* duration * sqrt(views + 1), the first discovered among equals, and
\* none when there is no candidate.
C12_GlobalBestSelectsOne ==
    \A r \in Runs :
        ~InProgress(r)
        => /\ Cardinality(SelectedIn(r)) <= 1
           /\ \A i, j \in EventsOf(r, {"candidate"}) :
                 <<events[r][i].c, events[r][i].m.id>> \in SelectedIn(r)
                 => \/ i = j
                    \/ ScoreSquared(events[r][i].m) > ScoreSquared(events[r][j].m)
                    \/ /\ ScoreSquared(events[r][i].m) = ScoreSquared(events[r][j].m)
                       /\ i < j

---------------------------------------------------------------------------
(* Claims about the report of a run that sent nothing, under SpecWide *)

\* r's call is over and it was a call: the slot is idle with a log
Finished(r) == ~InProgress(r) /\ events[r] # <<>>

\* the texts of the messages r's call sent to the admin, in order
ReportsOf(r) ==
    LET IsReport(e) == e.ev = "report"
        es == SelectSeq(events[r], IsReport)
    IN  [i \in 1..Len(es) |-> es[i].c]

\* C13: a run that sends nothing reports one of three outcomes.  With no
\* channel configured it sends the 'no channels' report and scans and
\* publishes nothing; with channels configured and every scan failing it
\* sends the 'scan errors' report; with every channel scanned without
\* error and no qualifying video it sends the 'no qualifying videos'
\* report.  (Of the runs whose send_message calls returned.)
C13_EmptyOutcomes ==
    \A r \in Runs :
        (Finished(r) /\ Clean(r))
        => LET chs == ChannelsOf(r)
           IN  /\ chs = <<>>
                  => /\ ReportsOf(r) = <<"no_channels">>
                     /\ Len(events[r]) = 1
               /\ (chs # <<>> /\ Len(ErrorsOf(r)) = Len(chs))
                  => ReportsOf(r) = <<"scan_errors">>
               /\ ( /\ chs # <<>>
                    /\ ErrorsOf(r) = <<>>
                    /\ EventsOf(r, {"candidate"}) = {} )
                  => ReportsOf(r) = <<"no_videos">>

\* a run over two channels whose scans both raised sent the 'scan
\* errors' report and nothing else
C13_Witness ==
    \E r \in Runs :
        /\ Finished(r) /\ Clean(r)
        /\ Len(ChannelsOf(r)) > 1
        /\ Len(ErrorsOf(r)) = Len(ChannelsOf(r))
        /\ ReportsOf(r) = <<"scan_errors">>

---------------------------------------------------------------------------
(* Claims about the order of a run's steps *)

\* C14: a run scans all its channels, then selects, then dispatches, then
\* reports: every publish attempt of a run comes after the end of the
\* scan of every channel of the run, and every report after every attempt.
C14_ScanAllBeforePublish ==
    \A r \in Runs : \A j \in EventsOf(r, Attempts) :
        /\ \A k \in 1..Len(ChannelsOf(r)) :
              \E i \in EventsOf(r, {"scanned", "scan_error"}) :
                  i < j /\ events[r][i].c = ChannelsOf(r)[k]
        /\ \A i \in EventsOf(r, {"report"}) : j < i

---------------------------------------------------------------------------
(* Claims about dates, under SpecLedger *)

IsWasSent(e) == e.fn = "was_sent_today"

\* C15: a row written on an earlier date does not make was_sent_today
\* true today: when the rows of (m, c) all have a sent_date other than
\* the date of the call, was_sent_today(m, c) returns false.
C15_EarlierDateNotToday ==
    \A i \in 1..Len(api) :
        LET e    == api[i]
            rows == Conflicts(e.after, e.message_id, e.channel_id)
        IN  (IsWasSent(e) /\ \A x \in rows : x.sent_date # e.today)
            => e.result = FALSE

\* mark_as_sent(m, c) on one date, then was_sent_today(m, c) on the next,
\* which found the row and returned false
C15_Witness ==
    \E i, j \in 1..Len(api) :
        /\ i < j
        /\ IsMark(api[i]) /\ IsWasSent(api[j])
        /\ api[i].message_id = api[j].message_id
        /\ api[i].channel_id = api[j].channel_id
        /\ Row(api[i].message_id, api[i].channel_id, api[i].today) \in api[j].after
        /\ api[i].today < api[j].today
        /\ api[j].result = FALSE

---------------------------------------------------------------------------
(* Claims about the end of a run, under SpecFair *)

\* the failure reports r's call sent
FailureReports(r) ==
    {i \in EventsOf(r, {"report"}) : events[r][i].c = "failure"}

\* the first exception of r's call that reached the outer except clause
FirstRaised(r) ==
    CHOOSE i \in EventsOf(r, {"raised"}) : \A j \in EventsOf(r, {"raised"}) : i <= j

\* every daily_job call comes to its end
Terminates == \A r \in Runs : InProgress(r) ~> ~InProgress(r)

\* no step takes a row out of the ledger
LedgerKept == ledger \subseteq ledger'

\* C16 (as claimed): every run terminates, the rows written stay, and a
\* run that an exception of get_channels or send_message cut short has
\* sent exactly one failure report when it is over.
C16_OneFailureReport ==
    /\ [](\A r \in Runs :
             (Finished(r) /\ EventsOf(r, {"raised"}) # {})
             => Cardinality(FailureReports(r)) = 1)
    /\ [][LedgerKept]_vars
    /\ Terminates

\* what the outer except clause does: nothing without an exception; after
\* the first one, one attempt to send the failure report, which ends the
\* call whether it returns or raises
FailureHandled ==
    \A r \in Runs :
        IF EventsOf(r, {"raised"}) = {}
        THEN FailureReports(r) = {} /\ run[r].pc # "send_failure"
        ELSE LET f == FirstRaised(r)
             IN  IF InProgress(r)
                 THEN run[r].pc = "send_failure" /\ Len(events[r]) = f
                 ELSE /\ Len(events[r]) = f + 1
                      /\ \/ FailureReports(r) = {f + 1}
                         \/ /\ FailureReports(r) = {}
                            /\ events[r][f + 1].ev = "raised"

\* C16 (amended): every run terminates without raising to its caller,
\* the rows written stay in the ledger, and a run that an exception of
\* get_channels or send_message cut short ends with exactly one attempt
\* to send a failure report: at most one reaches the admin, and none when
\* that send raises too.
C16_OneFailureAttempt ==
    /\ []FailureHandled
    /\ [][LedgerKept]_vars
    /\ Terminates

\* a run marked a message, its report raised, the failure report was
\* sent, and the row is in the ledger
C16_Witness ==
    \E r \in Runs :
        /\ Finished(r)
        /\ EventsOf(r, {"raised"}) # {}
        /\ Cardinality(FailureReports(r)) = 1
        /\ \E i \in EventsOf(r, {"marked"}) :
              /\ i < FirstRaised(r)
              /\ \E x \in ledger : /\ x.message_id = Str(events[r][i].m.id)
                                   /\ x.channel_id = events[r][i].c

---------------------------------------------------------------------------
(* Claims about what a scan leaves out, under SpecSerial *)

\* C17: the 'no qualifying video found' report is sent only by a run
\* whose scans all succeeded and in which no message passed the video,
\* duration and dedup filters: a run with a candidate never sends it.
C17_NoVideosMeansNoCandidate ==
    \A r \in Runs : \A i \in EventsOf(r, {"report"}) :
        events[r][i].c = "no_videos"
        => /\ ErrorsOf(r) = <<>>
           /\ EventsOf(r, {"candidate"}) = {}

\* the scan errors of r's call that came from was_sent_today
ReadFailures(r) ==
    {i \in EventsOf(r, {"scan_error"}) : events[r][i].m # NoMsg}

\* C18: when was_sent_today raises for a message during a scan, the
\* message does not become a candidate and is not published (nor
\* attempted) in that run, and the run goes on: the channels after it
\* are scanned.
C18_ReadFailureSkips ==
    /\ \A r \in Runs : \A i \in ReadFailures(r) :
          Places(r, Attempts \cup {"candidate"}, events[r][i].c, events[r][i].m.id) = {}
    /\ AllScanned

\* was_sent_today raised for a message of the first channel, the second
\* channel was scanned after it and the run sent its report
C18_Witness ==
    \E r \in Runs : \E i \in ReadFailures(r) :
        /\ Finished(r)
        /\ \E j \in EventsOf(r, {"scanned"}) :
              i < j /\ events[r][j].c # events[r][i].c
        /\ ReportsOf(r) # <<>>

\* the events about one message: it was examined, selected or published
Examined == Attempts \cup {"candidate", "checked", "scan_error"}

\* the messages delivered before place q of channel c are all inside the
\* window that starts at cutoff
WindowUpTo(c, q, cutoff) ==
    \A p \in 1..(q - 1) :
        p <= Len(get_chat_history(c)) => ~(get_chat_history(c)[p].date < cutoff)

\* C19: the scan of a channel stops at the first message, in the order
\* delivered, whose time is before the cutoff: the loop never moves past
\* such a message, and no message delivered after it is examined,
\* becomes a candidate or is published in that run, whatever its own time.
C19_StopsAtFirstOld ==
    \A r \in Runs :
        /\ run[r].pc \in {"scan", "was_sent"}
           => WindowUpTo(run[r].channels[run[r].ci].channel_id, run[r].mi,
                         run[r].cutoff)
        /\ \A i \in EventsOf(r, Examined) :
              LET e == events[r][i]
                  h == get_chat_history(e.c)
              IN  \A q \in 1..Len(h) :
                      (e.m # NoMsg /\ h[q].id = e.m.id)
                      => WindowUpTo(e.c, q, StartedAt(r) - LOOKBACK_HOURS)

\* a channel delivered a message older than the cutoff and after it a
\* fresh video of sufficient duration, never sent: the run scanned the
\* channel, has no event about the video and is over
C19_Witness ==
    \E r \in Runs : \E i \in EventsOf(r, {"scanned"}) :
        LET c == events[r][i].c
            h == get_chat_history(c)
        IN  /\ Finished(r)
            /\ ledger = {}
            /\ \E p, q \in 1..Len(h) :
                  /\ p < q
                  /\ h[p].date < StartedAt(r) - LOOKBACK_HOURS
                  /\ h[q].date >= StartedAt(r) - LOOKBACK_HOURS
                  /\ ~Filtered(h[q])
                  /\ \A j \in EventsOf(r, Examined) :
                        events[r][j].c = c => events[r][j].m.id # h[q].id

---------------------------------------------------------------------------
(* Claims about the time zone of the ledger's dates, under SpecZone *)

\* today's date in UTC
UtcToday == DateOf(now)

\* a call of a ledger function works with the UTC date: mark_as_sent
\* writes no row of another date, and was_sent_today returns true exactly
\* when the ledger holds the row of (m, c) dated today in UTC
CallsUseUtc ==
    /\ \A x \in ledger' \ ledger : x.sent_date = UtcToday
    /\ (api' # api /\ IsWasSent(api'[Len(api')]))
       => LET e == api'[Len(api')]
          IN  e.result = (Row(e.message_id, e.channel_id, UtcToday) \in ledger)

\* C20: the date that was_sent_today compares and mark_as_sent records
\* is the current UTC calendar date, whatever the host's time zone.
C20_DateIsUtc == [][CallsUseUtc]_vars

---------------------------------------------------------------------------
(* Claims about the channels table, under SpecChannels *)

IsAdd(e) == e.fn = "add_channel"
IsRemove(e) == e.fn = "remove_channel"

\* the channels that have a row in a table, and those with an active row
Stored(tbl) == {tbl[i].channel_id : i \in 1..Len(tbl)}
Active(tbl) == {tbl[i].channel_id : i \in {k \in 1..Len(tbl) : tbl[k].active = 1}}

\* the table before the i-th call of the log
TableBefore(i) == IF i = 1 THEN <<>> ELSE api[i - 1].after

\* the channels whose last call in the log is an add_channel
LastAdded ==
    {c \in ApiChannels :
        \E i \in 1..Len(api) :
            /\ IsAdd(api[i]) /\ api[i].channel_id = c
            /\ \A j \in (i + 1)..Len(api) : api[j].channel_id # c}

\* C21: no call takes a channel's row out of the table, a channel has at
\* most one row, get_channels returns exactly the channels whose last
\* call was add_channel, remove_channel returns true exactly when the
\* channel was active before it, add_channel makes a removed channel
\* active again, and a run scans the channels that get_channels returned
\* at its start and no others, whatever calls are made meanwhile.
C21_ChannelsSoftDeleted ==
    /\ \A i \in 1..Len(api) :
          /\ Stored(TableBefore(i)) \subseteq Stored(api[i].after)
          /\ IsRemove(api[i])
             => /\ api[i].result = (api[i].channel_id \in Active(TableBefore(i)))
                /\ api[i].channel_id \notin Active(api[i].after)
          /\ IsAdd(api[i]) => api[i].channel_id \in Active(api[i].after)
    /\ Len(channels) = Cardinality(Stored(channels))
    /\ {ch.channel_id : ch \in {get_channels(channels)[i] :
                                   i \in 1..Len(get_channels(channels))}} = LastAdded
    /\ \A r \in Runs :
          /\ \A i \in EventsOf(r, {"scanned", "scan_error", "candidate"} \cup Attempts) :
                \E k \in 1..Len(ChannelsOf(r)) : ChannelsOf(r)[k] = events[r][i].c
          /\ InLoop(r) => ChannelsOf(r) = [k \in 1..Len(run[r].channels) |-> run[r].channels[k].channel_id]
    /\ AllScanned

\* a run is scanning a channel that was removed after the run started,
\* while a channel added since is not in the run's list
C21_Witness ==
    \E r \in Runs :
        /\ run[r].pc = "scan"
        /\ run[r].channels[run[r].ci].channel_id \notin Active(channels)
        /\ \E i \in 1..Len(api) : IsRemove(api[i]) /\ api[i].result
        /\ \E c \in Active(channels) :
              \A k \in 1..Len(run[r].channels) : run[r].channels[k].channel_id # c

---------------------------------------------------------------------------
(* Claims about runs one after the other, under SpecRollover *)

\* every mark_as_sent call of the runs returned
MarksSucceeded == \A r \in Runs : EventsOf(r, {"mark_failed"}) = {}

\* C22: over runs that do not overlap and whose mark_as_sent calls all
\* return, a message of a channel is published at most once on a
\* calendar date, also one published and recorded on an earlier date
\* and still inside the lookback window.  (The runs of a behaviour are
\* all on the same date.)
C22_OncePerDate ==
    MarksSucceeded
    => \A r, q \in Runs : \A i \in EventsOf(r, {"copied"}) :
           \A j \in Places(q, {"copied"}, events[r][i].c, events[r][i].m.id) :
               r = q /\ i = j

---------------------------------------------------------------------------
(* Claims about a scan that fails midway, under Spec *)

Dispatched == Attempts \cup {"marked", "mark_failed"}

\* C23: when the scan of a channel raises, none of the channel's
\* messages is published (nor attempted, nor marked) in that run, also
\* those already accepted as candidates; a channel whose scan ended
\* has all its selected messages attempted.
C23_FailedChannelContributesNothing ==
    /\ \A r \in Runs : \A i \in EventsOf(r, {"scan_error"}) :
          \A j \in EventsOf(r, Dispatched) : events[r][j].c # events[r][i].c
    /\ AllAttempted

\* a channel's first message became a candidate, the scan raised after
\* it, and the run ended without an attempt for the channel
C23_Witness ==
    \E r \in Runs : \E i \in EventsOf(r, {"scan_error"}) :
        /\ Finished(r)
        /\ \E j \in EventsOf(r, {"candidate"}) :
              j < i /\ events[r][j].c = events[r][i].c
        /\ EventsOf(r, Dispatched) = {}

---------------------------------------------------------------------------
(* Claims about the schedule, under SpecTime *)

\* C24: when no /settime is in progress, the time of the job
\* "daily_send" is the time the settings hold, and both are the last
\* accepted time, 12:00 when none was accepted; a /settime whose
\* argument is malformed or out of range changes neither.
C24_JobMatchesSettings ==
    (\A k \in Cmds : cmd[k].pc = "idle")
    => /\ job = LoadedSchedule(settings)
       /\ job = accepted
       /\ InRange(job[1], job[2])

====
